---- MODULE Spec2Model ----
(***************************************************************************)
(* Process supervision and liveness subsystem of beer-garden.              *)
(*                                                                         *)
(*   SpecMonitor : PluginStatusMonitor (monitor.py) running against the    *)
(*                 instance store, interleaved with heartbeat receipts,    *)
(*                 orchestrator status writes and the clock.               *)
(*   SpecRunner  : ProcessRunner (local_plugins/runner.py) and the calls   *)
(*                 other threads make on it.                               *)
(*   SpecWatcher : MonitorFile (monitor.py) on a directory that other      *)
(*                 programs change, with the polling observer it starts.   *)
(*   SpecPlugin  : PluginRunner (local_plugins/plugin_runner.py), its two  *)
(*                 IO threads and the plugin process.                      *)
(***************************************************************************)
EXTENDS Integers, Sequences, FiniteSets, TLC

VARIABLES
    \* ---- instance store and clock
    now,        \* datetime.utcnow(), in ticks
    db,         \* persisted instances: id -> [status, heartbeat]
    \* ---- PluginStatusMonitor thread
    mpc,        \* position of run(): wait / request_status / check_status / instance / done / dead
    snap,       \* the objects db.query(System) returned to the running sweep
    cur,        \* index in Order of the instance the loop is at
    stopFlag,   \* StoppableThread stop event
    inBody,     \* the thread is in the loop body for instance cur, past the
                \* test of the stop event, which was set since
    probe,      \* outcome of this sweep's queue.put: none / published / failed
    sent,       \* the arguments of this sweep's queue.put
    envSteps,   \* heartbeat receipts and orchestrator writes so far
    lastEval,   \* history: what the step just taken did, when it was an
                \* iteration of the loop of check_status
    \* ---- ProcessRunner
    rpc,            \* position of the runner thread in run()
    process,        \* self.process: None / running / exited
    executable,     \* launch parameters: can Popen start them
    capture_streams,
    instance_id,
    restart,
    stopped,
    dead,
    reader,         \* position of each read_stream thread
    pipe,           \* lines written to each stream and not yet read
    written,        \* history: number of lines the process wrote to each stream
    log,            \* lines each stream logger received
    signals,        \* signals delivered to the process
    warned,         \* the "terminated before successfully initializing" warning
    lastCall,       \* history: what the call just made on the runner did
    died,           \* the "Plugin ... died" record of the except clause of run()
    spawns,         \* history: processes this runner has spawned
    snapshot,       \* what the last state() call returned, as its caller holds it
    \* ---- MonitorFile
    file,           \* self.file: the watched path, or "" when none was given
    create_event,   \* the event to publish for each kind of occurrence,
    modified_event, \*   or "None"
    moved_event,
    deleted_event,
    observer,       \* the PollingObserver: none / running / stopped
    dir,            \* the directory: path -> [ino, mtime], ino 0 when absent
    ref,            \* the listing the observer took at its last poll
    event_queue,    \* events the poll queued for the dispatcher thread
    handling,       \* the event whose handler the dispatcher thread is in
    published,      \* the events handed to publish(), in order
    ops,            \* history: the operations made on the directory
    lastStop,       \* history: how the stop() call just made ended, and
                    \* whether the observer was stopped already
    \* ---- PluginRunner
    ppc,            \* position of the runner thread in PluginRunner.run()
    process_args,   \* launch parameters: can Popen start them
    plugin_process, \* self.process: None / running / exited
    stop_event,     \* StoppableThread stop event of the runner
    io,             \* position of each _check_io thread
    depth,          \* frames of _check_io each IO thread is in, less one
    wend,           \* who holds the write end of each pipe
    stdio,          \* lines written to each pipe and not yet read
    emitted,        \* history: lines the plugin wrote so far
    relayed,        \* lines each IO thread gave to the unformatted logger
    forked,         \* the plugin started a process of its own
    plugin_log,     \* records given to self.logger, in order
    saw_stopped     \* what self.stopped() returned to run(): - / yes / no

monitorVars == <<now, db, mpc, snap, cur, stopFlag, inBody, probe, sent, envSteps,
                 lastEval>>

runnerVars == <<rpc, process, executable, capture_streams, instance_id,
                restart, stopped, dead, reader, pipe, written, log, signals,
                warned, lastCall, died, spawns, snapshot>>

watcherVars == <<file, create_event, modified_event, moved_event,
                 deleted_event, observer, dir, ref, event_queue, handling,
                 published, ops, lastStop>>

pluginVars == <<ppc, process_args, plugin_process, stop_event, io, depth,
                wend, stdio, emitted, relayed, forked, plugin_log,
                saw_stopped>>

vars == <<now, db, mpc, snap, cur, stopFlag, inBody, probe, sent, envSteps, lastEval,
          rpc, process, executable, capture_streams, instance_id, restart,
          stopped, dead, reader, pipe, written, log, signals, warned,
          lastCall, died, spawns, snapshot,
          file, create_event, modified_event, moved_event, deleted_event,
          observer, dir, ref, event_queue, handling, published, ops,
          lastStop,
          ppc, process_args, plugin_process, stop_event, io, depth, wend,
          stdio, emitted, relayed, forked, plugin_log, saw_stopped>>

----------------------------------------------------------------------------
\* Bounds of the model

MaxTime == 3        \* the clock stops advancing here
MaxEnvSteps == 1    \* heartbeat receipts plus orchestrator status writes
MaxLines == 2       \* lines the process writes to each of its streams
MaxFsOps == 3       \* operations made on the watched directory

\* PluginStatusMonitor(timeout_seconds=...), in ticks
timeout == 2

\* PluginStatusMonitor(heartbeat_interval=...), the sweep period in seconds
heartbeat_interval == 1

----------------------------------------------------------------------------
\* Data model

Statuses == {"UNKNOWN", "INITIALIZING", "STARTING", "RUNNING",
             "UNRESPONSIVE", "STOPPED", "DEAD"}

\* status_info["heartbeat"] is None: no heartbeat was ever recorded
NoHeartbeat == -1

\* Two systems; db.query(System) yields s1 then s2, each with its instances
\* in order.
Order == <<"s1.i1", "s1.i2", "s2.i1">>

Instances == {Order[k] : k \in 1..Len(Order)}

SystemOf(i) == IF i \in {"s1.i1", "s1.i2"} THEN "s1" ELSE "s2"

Null == [inst |-> "-", status |-> "-", heartbeat |-> NoHeartbeat, at |-> 0,
         wrote |-> "-"]

----------------------------------------------------------------------------
\* check_status, per instance (monitor.py 58-73)

\* (variant: the boundary excluded, > for >=)
TimedOut_strict(hb, t) == t - hb > timeout

\* datetime.utcnow() - last_heartbeat >= self.timeout
TimedOut(hb, t) == t - hb >= timeout

\* (variant: UNRESPONSIVE missing from the list of the elif)
NewStatus_noRecovery(status, hb, t) ==
    IF hb = NoHeartbeat THEN "-"
    ELSE IF status = "RUNNING" /\ TimedOut(hb, t) THEN "UNRESPONSIVE"
    ELSE IF status \in {"STARTING", "INITIALIZING", "UNKNOWN"}
            /\ ~TimedOut(hb, t) THEN "RUNNING"
    ELSE "-"

\* (variant: without the guard  if last_heartbeat)
NewStatus_noGuard(status, hb, t) ==
    IF status = "RUNNING" /\ TimedOut(hb, t) THEN "UNRESPONSIVE"
    ELSE IF status \in {"UNRESPONSIVE", "STARTING", "INITIALIZING", "UNKNOWN"}
            /\ ~TimedOut(hb, t) THEN "RUNNING"
    ELSE "-"

\* (variant: the first branch taken whatever the age of the heartbeat)
NewStatus_noAge(status, hb, t) ==
    IF hb = NoHeartbeat THEN "-"
    ELSE IF status = "RUNNING" THEN "UNRESPONSIVE"
    ELSE IF status \in {"UNRESPONSIVE", "STARTING", "INITIALIZING", "UNKNOWN"}
            /\ ~TimedOut(hb, t) THEN "RUNNING"
    ELSE "-"

\* the status the loop body assigns to instance.status, or "-" when neither
\* branch is taken
NewStatus(status, hb, t) ==
    IF hb = NoHeartbeat THEN "-"
    ELSE IF status = "RUNNING" /\ TimedOut(hb, t) THEN "UNRESPONSIVE"
    ELSE IF status \in {"UNRESPONSIVE", "STARTING", "INITIALIZING", "UNKNOWN"}
            /\ ~TimedOut(hb, t) THEN "RUNNING"
    ELSE "-"

\* db.update(system): the system object the sweep holds, with every instance
\* of that system as the sweep read or changed it, is saved
db_update(store, objs, sys) ==
    [i \in Instances |-> IF SystemOf(i) = sys THEN objs[i] ELSE store[i]]

\* first index after the instances of the system at index k
NextSystem(k) ==
    IF \E j \in (k+1)..Len(Order) : SystemOf(Order[j]) # SystemOf(Order[k])
    THEN CHOOSE j \in (k+1)..Len(Order) :
            /\ SystemOf(Order[j]) # SystemOf(Order[k])
            /\ \A l \in (k+1)..(j-1) : SystemOf(Order[l]) = SystemOf(Order[k])
    ELSE Len(Order) + 1

\* no sweep is running: the monitor holds no objects
NoObjs == [i \in Instances |-> [status |-> "-", heartbeat |-> NoHeartbeat]]

\* no queue.put was made in this sweep yet
NoRequest == [command |-> "-", routing_key |-> "-", expiration |-> 0]

\* queue.put(self.status_request, routing_key="admin", expiration=...): the
\* _status request, addressed to the routing key every plugin listens on;
\* the expiration is in milliseconds (passed as its decimal string)
StatusRequest(ms) ==
    [command |-> "_status", routing_key |-> "admin", expiration |-> ms]

\* where the loops go after index k - 1, holding objs: on to instance k, or
\* out of check_status and back to the wait of run()
Advance(k, objs) ==
    IF k > Len(Order)
    THEN /\ mpc' = "wait"
         /\ cur' = 0
         /\ snap' = NoObjs
         /\ probe' = "none"
         /\ sent' = NoRequest
    ELSE /\ mpc' = "instance"
         /\ cur' = k
         /\ snap' = objs
         /\ probe' = probe
         /\ sent' = sent

\* ProcessRunner: the two captured streams, and the instance ids associate()
\* is called with
Streams == {"stdout", "stderr"}

InstanceIds == {"id1", "id2"}

NoCall == [op |-> "-", running |-> FALSE, outcome |-> "-", signal |-> "-"]

\* no state() call was made yet
NoSnapshot == [kind |-> "none",
               values |-> [instance_id |-> "", restart |-> FALSE,
                           stopped |-> FALSE, dead |-> FALSE]]

\* ProcessRunner.__init__ (runner.py 124-136), the reader threads not created
RunnerCreated(exe, capture) ==
    /\ rpc = "new"
    /\ process = "None"
    /\ executable = exe
    /\ capture_streams = capture
    /\ instance_id = ""
    /\ restart = FALSE
    /\ stopped = FALSE
    /\ dead = FALSE
    /\ reader = [s \in Streams |-> "none"]
    /\ pipe = [s \in Streams |-> <<>>]
    /\ written = [s \in Streams |-> 0]
    /\ log = [s \in Streams |-> <<>>]
    /\ signals = {}
    /\ warned = FALSE
    /\ lastCall = NoCall
    /\ died = FALSE
    /\ spawns = 0
    /\ snapshot = NoSnapshot

\* MonitorFile: the watched path and another file of the same directory
Paths == {"watched", "other"}

PathOrder == <<"watched", "other">>

\* the inode numbers the file system gives to new files; a number is free
\* again once its file is gone
Inodes == {1, 2, 3}

Absent == [ino |-> 0, mtime |-> 0]

NoEvent == [type |-> "-", src |-> "-", dest |-> "-"]

\* no MonitorFile exists
WatcherIdle ==
    /\ file = ""
    /\ create_event = "None"
    /\ modified_event = "None"
    /\ moved_event = "None"
    /\ deleted_event = "None"
    /\ observer = "none"
    /\ dir = [p \in Paths |-> Absent]
    /\ ref = [p \in Paths |-> Absent]
    /\ event_queue = <<>>
    /\ handling = NoEvent
    /\ published = <<>>
    /\ ops = <<>>
    /\ lastStop = "-"

\* PluginRunner.__init__ (plugin_runner.py 24-59): no process, no IO thread
PluginRunnerCreated(args) ==
    /\ ppc = "new"
    /\ process_args = args
    /\ plugin_process = "None"
    /\ stop_event = FALSE
    /\ io = [s \in Streams |-> "none"]
    /\ depth = [s \in Streams |-> 0]
    /\ wend = [s \in Streams |-> {}]
    /\ stdio = [s \in Streams |-> 0]
    /\ emitted = 0
    /\ relayed = [s \in Streams |-> 0]
    /\ forked = FALSE
    /\ plugin_log = <<>>
    /\ saw_stopped = "-"

----------------------------------------------------------------------------
\* Initial state: every instance registered (status UNKNOWN), with no heartbeat
\* yet or a first one received at time 0; the monitor thread just started.

InitMonitor ==
    /\ now = 0
    /\ db \in [Instances -> [status : {"UNKNOWN"}, heartbeat : {NoHeartbeat, 0}]]
    /\ mpc = "wait"
    /\ snap = NoObjs
    /\ cur = 0
    /\ stopFlag = FALSE
    /\ inBody = FALSE
    /\ probe = "none"
    /\ sent = NoRequest
    /\ envSteps = 0
    /\ lastEval = Null
    /\ RunnerCreated("valid", FALSE)
    /\ WatcherIdle
    /\ PluginRunnerCreated("valid")

----------------------------------------------------------------------------
\* PluginStatusMonitor.run

\* (variant: a fixed-period timer, which fires while a sweep is evaluating)
MonitorWait_timer ==
    /\ mpc \in {"wait", "instance"}
    /\ mpc' = IF stopFlag THEN "done" ELSE "request_status"
    /\ lastEval' = Null
    /\ UNCHANGED <<now, db, snap, cur, stopFlag, inBody, probe, sent, envSteps>>
    /\ UNCHANGED <<runnerVars, watcherVars, pluginVars>>

\* while not self.wait(self.heartbeat_interval)
MonitorWait ==
    /\ mpc = "wait"
    /\ mpc' = IF stopFlag THEN "done" ELSE "request_status"
    /\ lastEval' = Null
    /\ UNCHANGED <<now, db, snap, cur, stopFlag, inBody, probe, sent, envSteps>>
    /\ UNCHANGED <<runnerVars, watcherVars, pluginVars>>

\* (variant: the expiration given in seconds)
request_status_seconds(ok) ==
    /\ probe' = IF ok THEN "published" ELSE "failed"
    /\ sent' = StatusRequest(heartbeat_interval)
    /\ mpc' = "check_status"

\* (variant: queue.put outside any try/except)
request_status_uncaught(ok) ==
    /\ probe' = IF ok THEN "published" ELSE "failed"
    /\ sent' = StatusRequest(heartbeat_interval * 1000)
    /\ mpc' = IF ok THEN "check_status" ELSE "dead"

\* request_status: queue.put inside try/except Exception; ok: the put succeeds
request_status(ok) ==
    /\ probe' = IF ok THEN "published" ELSE "failed"
    /\ sent' = StatusRequest(heartbeat_interval * 1000)
    /\ mpc' = "check_status"

RequestStatus ==
    /\ mpc = "request_status"
    /\ \E ok \in BOOLEAN : request_status(ok)
    /\ lastEval' = Null
    /\ UNCHANGED <<now, db, snap, cur, stopFlag, inBody, envSteps>>
    /\ UNCHANGED <<runnerVars, watcherVars, pluginVars>>

\* for system in db.query(System): the query succeeds ...
QuerySystems ==
    /\ mpc = "check_status"
    /\ Advance(1, db)
    /\ lastEval' = Null
    /\ UNCHANGED <<now, db, stopFlag, inBody, envSteps>>
    /\ UNCHANGED <<runnerVars, watcherVars, pluginVars>>

\* ... or raises, out of check_status and out of run()
QueryFails ==
    /\ mpc = "check_status"
    /\ mpc' = "dead"
    /\ lastEval' = Null
    /\ UNCHANGED <<now, db, snap, cur, stopFlag, inBody, probe, sent, envSteps>>
    /\ UNCHANGED <<runnerVars, watcherVars, pluginVars>>

\* one iteration of the loop body on instance i; ok: db.update succeeds
check_instance(i, ok) ==
    LET new == NewStatus(snap[i].status, snap[i].heartbeat, now)
        objs == IF new = "-" THEN snap
                ELSE [snap EXCEPT ![i].status = new]
    IN  /\ lastEval' = [inst |-> i, status |-> snap[i].status,
                        heartbeat |-> snap[i].heartbeat, at |-> now,
                        wrote |-> IF new = "-" THEN "-"
                                  ELSE IF ok THEN new ELSE "error"]
        /\ IF new = "-"
           THEN /\ db' = db
                /\ Advance(cur + 1, objs)
           ELSE IF ok
           THEN /\ db' = db_update(db, objs, SystemOf(i))
                /\ Advance(cur + 1, objs)
           ELSE /\ db' = db
                /\ mpc' = "dead"
                /\ snap' = objs
                /\ UNCHANGED <<cur, probe, sent>>

\* (variant: the loop body has no test of the stop event)
SkipStopped_evaluates ==
    /\ mpc = "instance"
    /\ stopFlag
    /\ ~inBody
    /\ check_instance(Order[cur], TRUE)
    /\ UNCHANGED <<now, stopFlag, inBody, envSteps>>
    /\ UNCHANGED <<runnerVars, watcherVars, pluginVars>>

\* if self.stopped(): break     (leaves the loop over this system's instances)
SkipStopped ==
    /\ mpc = "instance"
    /\ stopFlag
    /\ ~inBody
    /\ Advance(NextSystem(cur), snap)
    /\ lastEval' = Null
    /\ UNCHANGED <<now, db, stopFlag, inBody, envSteps>>
    /\ UNCHANGED <<runnerVars, watcherVars, pluginVars>>

CheckInstance ==
    /\ mpc = "instance"
    /\ ~stopFlag
    /\ check_instance(Order[cur], TRUE)
    /\ UNCHANGED <<now, stopFlag, inBody, envSteps>>
    /\ UNCHANGED <<runnerVars, watcherVars, pluginVars>>

\* db.update raises: nothing in check_status or run() catches it
UpdateFails ==
    /\ mpc = "instance"
    /\ ~stopFlag
    /\ NewStatus(snap[Order[cur]].status, snap[Order[cur]].heartbeat, now) # "-"
    /\ check_instance(Order[cur], FALSE)
    /\ UNCHANGED <<now, stopFlag, inBody, envSteps>>
    /\ UNCHANGED <<runnerVars, watcherVars, pluginVars>>

\* StoppableThread.stop()
Stop ==
    /\ ~stopFlag
    /\ mpc \notin {"done", "dead"}
    /\ stopFlag' = TRUE
    /\ lastEval' = Null
    /\ UNCHANGED <<now, db, mpc, snap, cur, inBody, probe, sent, envSteps>>
    /\ UNCHANGED <<runnerVars, watcherVars, pluginVars>>

\* StoppableThread.stop(), arriving when the thread has passed the test
\* `if self.stopped()` of the iteration it is in, has assigned the new status
\* to the instance object and has not yet called db.update. (A stop() that
\* falls earlier in the body, or in an iteration that writes nothing, leads
\* to the states it leads to when it falls after the iteration, so only this
\* one is told apart.)
StopInBody ==
    /\ mpc = "instance"
    /\ ~stopFlag
    /\ LET i == Order[cur]
           new == NewStatus(snap[i].status, snap[i].heartbeat, now)
       IN  /\ new # "-"
           /\ snap' = [snap EXCEPT ![i].status = new]
    /\ stopFlag' = TRUE
    /\ inBody' = TRUE
    /\ lastEval' = Null
    /\ UNCHANGED <<now, db, mpc, cur, probe, sent, envSteps>>
    /\ UNCHANGED <<runnerVars, watcherVars, pluginVars>>

\* the iteration that had passed the test calls db.update(system) with the
\* stop event set; the call succeeds or raises
FinishIteration ==
    /\ mpc = "instance"
    /\ inBody
    /\ \/ /\ db' = db_update(db, snap, SystemOf(Order[cur]))
          /\ Advance(cur + 1, snap)
       \/ /\ db' = db
          /\ mpc' = "dead"
          /\ UNCHANGED <<snap, cur, probe, sent>>
    /\ inBody' = FALSE
    /\ lastEval' = Null
    /\ UNCHANGED <<now, stopFlag, envSteps>>
    /\ UNCHANGED <<runnerVars, watcherVars, pluginVars>>

----------------------------------------------------------------------------
\* The other writers of the store, and the clock

Tick ==
    /\ now < MaxTime
    /\ now' = now + 1
    /\ lastEval' = Null
    /\ UNCHANGED <<db, mpc, snap, cur, stopFlag, inBody, probe, sent, envSteps>>
    /\ UNCHANGED <<runnerVars, watcherVars, pluginVars>>

\* a worker answers the probe: its lastHeartbeat becomes the current time
Heartbeat ==
    /\ envSteps < MaxEnvSteps
    /\ \E i \in Instances : db' = [db EXCEPT ![i].heartbeat = now]
    /\ envSteps' = envSteps + 1
    /\ lastEval' = Null
    /\ UNCHANGED <<now, mpc, snap, cur, stopFlag, inBody, probe, sent>>
    /\ UNCHANGED <<runnerVars, watcherVars, pluginVars>>

\* updateInstanceStatus(instance_id, new_status)
updateInstanceStatus(i, st) == db' = [db EXCEPT ![i].status = st]

UpdateInstanceStatus ==
    /\ envSteps < MaxEnvSteps
    /\ \E i \in Instances, st \in Statuses : updateInstanceStatus(i, st)
    /\ envSteps' = envSteps + 1
    /\ lastEval' = Null
    /\ UNCHANGED <<now, mpc, snap, cur, stopFlag, inBody, probe, sent>>
    /\ UNCHANGED <<runnerVars, watcherVars, pluginVars>>

NextMonitor ==
    \/ MonitorWait
    \/ RequestStatus
    \/ QuerySystems
    \/ QueryFails
    \/ SkipStopped
    \/ CheckInstance
    \/ UpdateFails
    \/ Stop
    \/ StopInBody
    \/ FinishIteration
    \/ Tick
    \/ Heartbeat
    \/ UpdateInstanceStatus

SpecMonitor == InitMonitor /\ [][NextMonitor]_vars

----------------------------------------------------------------------------
\* ProcessRunner (local_plugins/runner.py)

\* the monitor and the store, at rest while a runner is studied
MonitorIdle ==
    /\ now = 0
    /\ db = [i \in Instances |-> [status |-> "UNKNOWN", heartbeat |-> NoHeartbeat]]
    /\ mpc = "wait"
    /\ snap = NoObjs
    /\ cur = 0
    /\ stopFlag = FALSE
    /\ inBody = FALSE
    /\ probe = "none"
    /\ sent = NoRequest
    /\ envSteps = 0
    /\ lastEval = Null

InitRunner ==
    /\ MonitorIdle
    /\ WatcherIdle
    /\ PluginRunnerCreated("valid")
    /\ \E exe \in {"valid", "missing"}, capture \in BOOLEAN :
            RunnerCreated(exe, capture)

attributes == <<instance_id, restart, stopped, dead>>

launch == <<executable, capture_streams>>

\* (variant: a finished runner can be started again)
Start_again ==
    /\ rpc \in {"new", "finished"}
    /\ rpc' = "popen"
    /\ lastCall' = [op |-> "start", running |-> FALSE, outcome |-> "returned",
                    signal |-> "-"]
    /\ UNCHANGED <<process, reader, pipe, written, log, signals, warned>>
    /\ UNCHANGED <<attributes, launch, monitorVars, watcherVars, pluginVars, died, spawns, snapshot>>

\* start(): Thread.start() returns to its caller once the runner thread is
\* running; the thread then begins run()
Start ==
    /\ rpc = "new"
    /\ rpc' = "popen"
    /\ lastCall' = [op |-> "start", running |-> FALSE, outcome |-> "returned",
                    signal |-> "-"]
    /\ UNCHANGED <<process, reader, pipe, written, log, signals, warned>>
    /\ UNCHANGED <<attributes, launch, monitorVars, watcherVars, pluginVars, died, spawns, snapshot>>

\* self.process = subprocess.Popen(...)
Spawn ==
    /\ rpc = "popen"
    /\ executable = "valid"
    /\ process' = "running"
    /\ spawns' = spawns + 1
    /\ rpc' = "enter"
    /\ lastCall' = NoCall
    /\ UNCHANGED <<reader, pipe, written, log, signals, warned>>
    /\ UNCHANGED <<attributes, launch, monitorVars, watcherVars, pluginVars, died, snapshot>>

\* (variant: no except clause, the exception leaves run())
SpawnFails_uncaught ==
    /\ rpc = "popen"
    /\ executable = "missing"
    /\ rpc' = "crashed"
    /\ lastCall' = NoCall
    /\ UNCHANGED <<process, reader, pipe, written, log, signals, warned>>
    /\ UNCHANGED <<attributes, launch, monitorVars, watcherVars, pluginVars, died, spawns, snapshot>>

\* Popen raises: except Exception logs "died" and run() returns
SpawnFails ==
    /\ rpc = "popen"
    /\ executable = "missing"
    /\ rpc' = "finished"
    /\ died' = TRUE
    /\ lastCall' = NoCall
    /\ UNCHANGED <<process, reader, pipe, written, log, signals, warned>>
    /\ UNCHANGED <<attributes, launch, monitorVars, watcherVars, pluginVars, spawns, snapshot>>

\* with StreamReader(self): __enter__ starts the two reader threads when
\* capturing
StreamReaderEnter ==
    /\ rpc = "enter"
    /\ reader' = IF capture_streams THEN [s \in Streams |-> "poll"] ELSE reader
    /\ rpc' = "wait"
    /\ lastCall' = NoCall
    /\ UNCHANGED <<process, pipe, written, log, signals, warned>>
    /\ UNCHANGED <<attributes, launch, monitorVars, watcherVars, pluginVars, died, spawns, snapshot>>

\* (variant: the failure of __enter__ leaves run())
StreamReaderEnterFails_uncaught ==
    /\ rpc = "enter"
    /\ capture_streams
    /\ rpc' = "crashed"
    /\ lastCall' = NoCall
    /\ UNCHANGED <<process, reader, pipe, written, log, signals, warned>>
    /\ UNCHANGED <<attributes, launch, monitorVars, watcherVars, pluginVars, died, spawns, snapshot>>

\* __enter__ raises while setting up the log files (logging.FileHandler on
\* the working directory), before any thread is created: __exit__ is not
\* run, except Exception logs "died" and run() returns
StreamReaderEnterFails ==
    /\ rpc = "enter"
    /\ capture_streams
    /\ rpc' = "finished"
    /\ died' = TRUE
    /\ lastCall' = NoCall
    /\ UNCHANGED <<process, reader, pipe, written, log, signals, warned>>
    /\ UNCHANGED <<attributes, launch, monitorVars, watcherVars, pluginVars, spawns, snapshot>>

\* read_stream: while process.poll() is None
ReaderPoll(s) ==
    /\ reader[s] = "poll"
    /\ reader' = [reader EXCEPT ![s] = IF process = "running" THEN "read"
                                      ELSE "done"]
    /\ lastCall' = NoCall
    /\ UNCHANGED <<rpc, process, pipe, written, log, signals, warned>>
    /\ UNCHANGED <<attributes, launch, monitorVars, watcherVars, pluginVars, died, spawns, snapshot>>

\* read_stream: for raw_line in stream_reader: logger.info(...); readline
\* blocks on an empty pipe while the process holds it open and returns ""
\* once the process is gone
ReaderRead(s) ==
    /\ reader[s] = "read"
    /\ IF pipe[s] # <<>>
       THEN /\ log' = [log EXCEPT ![s] = Append(@, Head(pipe[s]))]
            /\ pipe' = [pipe EXCEPT ![s] = Tail(@)]
            /\ reader' = reader
       ELSE /\ process = "exited"
            /\ reader' = [reader EXCEPT ![s] = "poll"]
            /\ UNCHANGED <<log, pipe>>
    /\ lastCall' = NoCall
    /\ UNCHANGED <<rpc, process, written, signals, warned>>
    /\ UNCHANGED <<attributes, launch, monitorVars, watcherVars, pluginVars, died, spawns, snapshot>>

\* the plugin process writes a complete line to one of its captured streams
ProcessWrite(s) ==
    /\ process = "running"
    /\ capture_streams
    /\ written[s] < MaxLines
    /\ written' = [written EXCEPT ![s] = @ + 1]
    /\ pipe' = [pipe EXCEPT ![s] = Append(@, written[s] + 1)]
    /\ lastCall' = NoCall
    /\ UNCHANGED <<rpc, process, reader, log, signals, warned>>
    /\ UNCHANGED <<attributes, launch, monitorVars, watcherVars, pluginVars, died, spawns, snapshot>>

\* the plugin process exits, on its own or on a signal
ProcessExit ==
    /\ process = "running"
    /\ process' = "exited"
    /\ lastCall' = NoCall
    /\ UNCHANGED <<rpc, reader, pipe, written, log, signals, warned>>
    /\ UNCHANGED <<attributes, launch, monitorVars, watcherVars, pluginVars, died, spawns, snapshot>>

\* (variant: the scope is left without waiting for the process)
Wait_early ==
    /\ rpc = "wait"
    /\ rpc' = "join_stdout"
    /\ lastCall' = NoCall
    /\ UNCHANGED <<process, reader, pipe, written, log, signals, warned>>
    /\ UNCHANGED <<attributes, launch, monitorVars, watcherVars, pluginVars, died, spawns, snapshot>>

\* self.process.wait() returns
Wait ==
    /\ rpc = "wait"
    /\ process = "exited"
    /\ rpc' = "join_stdout"
    /\ lastCall' = NoCall
    /\ UNCHANGED <<process, reader, pipe, written, log, signals, warned>>
    /\ UNCHANGED <<attributes, launch, monitorVars, watcherVars, pluginVars, died, spawns, snapshot>>

\* (variant: __exit__ returns without joining)
JoinReader_noJoin(s, after) ==
    /\ rpc' = after
    /\ lastCall' = NoCall
    /\ UNCHANGED <<process, reader, pipe, written, log, signals, warned>>
    /\ UNCHANGED <<attributes, launch, monitorVars, watcherVars, pluginVars, died, spawns, snapshot>>

\* StreamReader.__exit__: join a reader thread that exists and is alive
JoinReader(s, after) ==
    /\ reader[s] \in {"none", "done"}
    /\ rpc' = after
    /\ lastCall' = NoCall
    /\ UNCHANGED <<process, reader, pipe, written, log, signals, warned>>
    /\ UNCHANGED <<attributes, launch, monitorVars, watcherVars, pluginVars, died, spawns, snapshot>>

JoinStdout == rpc = "join_stdout" /\ JoinReader("stdout", "join_stderr")

JoinStderr == rpc = "join_stderr" /\ JoinReader("stderr", "check_id")

\* (variant: the warning is logged whether or not an instance is associated)
Finish_alwaysWarns ==
    /\ rpc = "check_id"
    /\ warned' = TRUE
    /\ rpc' = "finished"
    /\ lastCall' = NoCall
    /\ UNCHANGED <<process, reader, pipe, written, log, signals>>
    /\ UNCHANGED <<attributes, launch, monitorVars, watcherVars, pluginVars, died, spawns, snapshot>>

\* (variant: the instance id is cleared when the process is gone)
Finish_clears ==
    /\ rpc = "check_id"
    /\ warned' = (instance_id = "")
    /\ instance_id' = ""
    /\ rpc' = "finished"
    /\ lastCall' = NoCall
    /\ UNCHANGED <<process, reader, pipe, written, log, signals>>
    /\ UNCHANGED <<restart, stopped, dead, launch, monitorVars, watcherVars, pluginVars, died, spawns,
                   snapshot>>

\* if not self.instance_id: warning; "Plugin is officially stopped"
Finish ==
    /\ rpc = "check_id"
    /\ warned' = (instance_id = "")
    /\ rpc' = "finished"
    /\ lastCall' = NoCall
    /\ UNCHANGED <<process, reader, pipe, written, log, signals>>
    /\ UNCHANGED <<attributes, launch, monitorVars, watcherVars, pluginVars, died, spawns, snapshot>>

\* associate(instance)
Associate ==
    /\ \E id \in InstanceIds : instance_id' = id
    /\ lastCall' = [op |-> "associate", running |-> process = "running",
                    outcome |-> "returned", signal |-> "-"]
    /\ UNCHANGED <<rpc, process, reader, pipe, written, log, signals, warned>>
    /\ UNCHANGED <<restart, stopped, dead, launch, monitorVars, watcherVars, pluginVars, died, spawns, snapshot>>

\* terminate(): with a running process, the argument of os.kill is
\* self.process.pid(), a call of the integer Popen.pid, which raises
\* TypeError before os.kill is reached
terminate ==
    IF process = "running"
    THEN /\ lastCall' = [op |-> "terminate", running |-> TRUE,
                         outcome |-> "TypeError", signal |-> "-"]
         /\ signals' = signals
    ELSE /\ lastCall' = [op |-> "terminate", running |-> FALSE,
                         outcome |-> "returned", signal |-> "-"]
         /\ signals' = signals

Terminate ==
    /\ terminate
    /\ UNCHANGED <<rpc, process, reader, pipe, written, log, warned>>
    /\ UNCHANGED <<attributes, launch, monitorVars, watcherVars, pluginVars, died, spawns, snapshot>>

\* (variant: the guard does not poll, an exited process is signalled too)
kill_noPoll ==
    IF process # "None"
    THEN /\ lastCall' = [op |-> "kill", running |-> process = "running",
                         outcome |-> "returned", signal |-> "SIGKILL"]
         /\ signals' = signals \cup {"SIGKILL"}
    ELSE /\ lastCall' = [op |-> "kill", running |-> FALSE,
                         outcome |-> "returned", signal |-> "-"]
         /\ signals' = signals

\* kill(): self.process.kill() when a process was spawned and has not exited
kill ==
    IF process = "running"
    THEN /\ lastCall' = [op |-> "kill", running |-> TRUE,
                         outcome |-> "returned", signal |-> "SIGKILL"]
         /\ signals' = signals \cup {"SIGKILL"}
    ELSE /\ lastCall' = [op |-> "kill", running |-> FALSE,
                         outcome |-> "returned", signal |-> "-"]
         /\ signals' = signals

Kill ==
    /\ kill
    /\ UNCHANGED <<rpc, process, reader, pipe, written, log, warned>>
    /\ UNCHANGED <<attributes, launch, monitorVars, watcherVars, pluginVars, died, spawns, snapshot>>

\* (variant: state() hands out the runner's own attribute mapping)
state_alias ==
    snapshot' = [kind |-> "alias",
                 values |-> [instance_id |-> instance_id, restart |-> restart,
                             stopped |-> stopped, dead |-> dead]]

\* state(): a new dict holding the current values of the attributes
\* (runner_name and runner_id never change and are left out)
state ==
    snapshot' = [kind |-> "dict",
                 values |-> [instance_id |-> instance_id, restart |-> restart,
                             stopped |-> stopped, dead |-> dead]]

State ==
    /\ state
    /\ lastCall' = [op |-> "state", running |-> process = "running",
                    outcome |-> "returned", signal |-> "-"]
    /\ UNCHANGED <<rpc, process, reader, pipe, written, log, signals, warned>>
    /\ UNCHANGED <<attributes, launch, monitorVars, watcherVars, pluginVars, died, spawns>>

\* what the holder of a state() result reads in it: the values copied at the
\* call, or the live attributes had the result been the runner's own mapping
SnapshotView(snp, live) ==
    IF snp.kind = "alias" THEN live ELSE snp.values

NextRunner ==
    \/ Start
    \/ Spawn
    \/ SpawnFails
    \/ StreamReaderEnter
    \/ StreamReaderEnterFails
    \/ \E s \in Streams : ReaderPoll(s)
    \/ \E s \in Streams : ReaderRead(s)
    \/ \E s \in Streams : ProcessWrite(s)
    \/ ProcessExit
    \/ Wait
    \/ JoinStdout
    \/ JoinStderr
    \/ Finish
    \/ Associate
    \/ Terminate
    \/ Kill
    \/ State

SpecRunner == InitRunner /\ [][NextRunner]_vars

\* the steps of the runner thread, which the interpreter keeps scheduling
RunnerThread ==
    \/ Spawn
    \/ SpawnFails
    \/ StreamReaderEnter
    \/ Wait
    \/ JoinStdout
    \/ JoinStderr
    \/ Finish

\* the steps of the reader thread of stream s
ReaderThread(s) == ReaderPoll(s) \/ ReaderRead(s)

\* the threads of the runner always get to run, and a process that was sent
\* SIGKILL exits; a process that was not signalled may run for ever
SpecRunnerFair ==
    /\ InitRunner
    /\ [][NextRunner]_vars
    /\ WF_vars(RunnerThread)
    /\ \A s \in Streams : WF_vars(ReaderThread(s))
    /\ WF_vars(ProcessExit /\ "SIGKILL" \in signals)

----------------------------------------------------------------------------
\* MonitorFile (monitor.py) and the PollingObserver it starts

\* MonitorFile.__init__: with a path, the four events are kept and a polling
\* observer is scheduled on the directory and started; the observer takes
\* its first listing when it starts
MonitorFileCreated(path, ce, me, mve, de) ==
    /\ file = path
    /\ create_event = (IF path # "" THEN ce ELSE "None")
    /\ modified_event = (IF path # "" THEN me ELSE "None")
    /\ moved_event = (IF path # "" THEN mve ELSE "None")
    /\ deleted_event = (IF path # "" THEN de ELSE "None")
    /\ observer = (IF path # "" THEN "running" ELSE "none")
    /\ ref = dir
    /\ event_queue = <<>>
    /\ handling = NoEvent
    /\ published = <<>>
    /\ ops = <<>>
    /\ lastStop = "-"

\* the directory holds the watched file or not when the watcher is created
InitWatcher ==
    /\ MonitorIdle
    /\ RunnerCreated("valid", FALSE)
    /\ PluginRunnerCreated("valid")
    /\ \E present \in BOOLEAN :
         dir = [p \in Paths |->
                  IF p = "watched" /\ present THEN [ino |-> 1, mtime |-> 0]
                  ELSE Absent]
    /\ \E path \in {"watched", ""},
          ce \in {"None", "CREATED"}, me \in {"None", "MODIFIED"},
          mve \in {"None", "MOVED"}, de \in {"None", "DELETED"} :
         MonitorFileCreated(path, ce, me, mve, de)

\* ---- the directory listing diff of the polling observer

Present(listing) == {p \in Paths : listing[p].ino # 0}

\* paths that hold another file than at the last poll
Replaced(old, new) ==
    {p \in Present(old) \cap Present(new) : old[p].ino # new[p].ino}

\* a file known at the last poll is now found under another path
Moved(old, new) ==
    {m \in Paths \X Paths :
        /\ m[1] \in (Present(old) \ Present(new)) \cup Replaced(old, new)
        /\ m[2] \in Present(new)
        /\ new[m[2]].ino = old[m[1]].ino}

Deleted(old, new) ==
    ((Present(old) \ Present(new)) \cup Replaced(old, new))
        \ {m[1] : m \in Moved(old, new)}

Created(old, new) ==
    ((Present(new) \ Present(old)) \cup Replaced(old, new))
        \ {m[2] : m \in Moved(old, new)}

Modified(old, new) ==
    {p \in Present(old) \cap Present(new) :
        old[p].ino = new[p].ino /\ old[p].mtime # new[p].mtime}
    \cup {m[1] : m \in {x \in Moved(old, new) :
                          old[x[1]].mtime # new[x[2]].mtime}}

FileEvents(type, paths) ==
    LET one(p) == IF p \in paths
                  THEN <<[type |-> type, src |-> p, dest |-> "-"]>>
                  ELSE <<>>
    IN  one(PathOrder[1]) \o one(PathOrder[2])

MoveEvents(moves) ==
    LET one(p) == IF \E q \in Paths : <<p, q>> \in moves
                  THEN <<[type |-> "moved", src |-> p,
                          dest |-> CHOOSE q \in Paths : <<p, q>> \in moves]>>
                  ELSE <<>>
    IN  one(PathOrder[1]) \o one(PathOrder[2])

\* the events one poll queues: deletions, modifications, creations, moves
Diff(old, new) ==
    FileEvents("deleted", Deleted(old, new))
        \o FileEvents("modified", Modified(old, new))
        \o FileEvents("created", Created(old, new))
        \o MoveEvents(Moved(old, new))

handlers == <<file, create_event, modified_event, moved_event, deleted_event>>

\* ---- the programs that change the directory

OpOn(p, name) == IF p = "watched" THEN name ELSE "other"

FsCreate(p) ==
    /\ dir[p].ino = 0
    /\ \E i \in Inodes \ {dir[q].ino : q \in Paths} :
         dir' = [dir EXCEPT ![p] = [ino |-> i, mtime |-> Len(ops) + 1]]
    /\ ops' = Append(ops, OpOn(p, "create"))

FsDelete(p) ==
    /\ dir[p].ino # 0
    /\ dir' = [dir EXCEPT ![p] = Absent]
    /\ ops' = Append(ops, OpOn(p, "delete"))

FsModify(p) ==
    /\ dir[p].ino # 0
    /\ dir' = [dir EXCEPT ![p].mtime = Len(ops) + 1]
    /\ ops' = Append(ops, OpOn(p, "modify"))

\* rename(p, q): q, if it exists, is replaced
FsRename(p, q) ==
    /\ p # q
    /\ dir[p].ino # 0
    /\ dir' = [dir EXCEPT ![q] = dir[p], ![p] = Absent]
    /\ ops' = Append(ops, IF p = "watched" THEN "move_away" ELSE "move_onto")

FileSystem ==
    /\ Len(ops) < MaxFsOps
    /\ \E p \in Paths :
         \/ FsCreate(p)
         \/ FsDelete(p)
         \/ FsModify(p)
         \/ \E q \in Paths : FsRename(p, q)
    /\ lastStop' = "-"
    /\ UNCHANGED <<handlers, observer, ref, event_queue, handling, published>>
    /\ UNCHANGED <<monitorVars, runnerVars, pluginVars>>

\* ---- the observer's threads

\* the emitter thread lists the directory, queues the differences with its
\* last listing and keeps the new one
Poll ==
    /\ observer = "running"
    /\ event_queue' = event_queue \o Diff(ref, dir)
    /\ ref' = dir
    /\ lastStop' = "-"
    /\ UNCHANGED <<handlers, observer, dir, handling, published, ops>>
    /\ UNCHANGED <<monitorVars, runnerVars, pluginVars>>

\* the dispatcher thread takes the next event off the queue
Dequeue ==
    /\ observer = "running"
    /\ handling = NoEvent
    /\ event_queue # <<>>
    /\ handling' = Head(event_queue)
    /\ event_queue' = Tail(event_queue)
    /\ lastStop' = "-"
    /\ UNCHANGED <<handlers, observer, dir, ref, published, ops>>
    /\ UNCHANGED <<monitorVars, runnerVars, pluginVars>>

\* (variant: the handler is given every file of the directory)
Matches_directory(e) == e.src \in Paths

\* PatternMatchingEventHandler(patterns=[self.file], ...): the event is for
\* the handler when its source or its destination is the watched path
Matches(e) == e.src = file \/ e.dest = file

\* (variant: the create event is published by on_created and once more by
\* a handler for every event)
on_created_twice(pub) ==
    IF create_event # "None"
    THEN Append(Append(pub, create_event), create_event)
    ELSE pub

on_created(pub) ==
    IF create_event # "None" THEN Append(pub, create_event) ELSE pub

on_modified(pub) ==
    IF modified_event # "None" THEN Append(pub, modified_event) ELSE pub

on_moved(pub) ==
    IF moved_event # "None" THEN Append(pub, moved_event) ELSE pub

on_deleted(pub) ==
    IF deleted_event # "None" THEN Append(pub, deleted_event) ELSE pub

\* the handler method the event handler calls for an event
dispatch(e, pub) ==
    IF ~Matches(e) THEN pub
    ELSE CASE e.type = "created" -> on_created(pub)
           [] e.type = "modified" -> on_modified(pub)
           [] e.type = "moved" -> on_moved(pub)
           [] e.type = "deleted" -> on_deleted(pub)

\* the dispatcher thread runs the handler of the event it took
Handle ==
    /\ handling # NoEvent
    /\ published' = dispatch(handling, published)
    /\ handling' = NoEvent
    /\ lastStop' = "-"
    /\ UNCHANGED <<handlers, observer, dir, ref, event_queue, ops>>
    /\ UNCHANGED <<monitorVars, runnerVars, pluginVars>>

\* (variant: observer.stop() without observer.join())
stop_noJoin ==
    /\ IF file # ""
       THEN /\ observer' = "stopped"
            /\ event_queue' = <<>>
       ELSE UNCHANGED <<observer, event_queue>>
    /\ lastStop' = IF observer = "stopped" THEN "returned again"
                   ELSE "returned"

\* stop(): observer.stop() ends the polling and drops what is queued;
\* observer.join() returns when the dispatcher thread has left the handler
\* it was in. Without a path there is no observer and nothing is done.
stop ==
    /\ IF file # ""
       THEN /\ handling = NoEvent
            /\ observer' = "stopped"
            /\ event_queue' = <<>>
       ELSE UNCHANGED <<observer, event_queue>>
    /\ lastStop' = IF observer = "stopped" THEN "returned again"
                   ELSE "returned"

WatcherStop ==
    /\ stop
    /\ UNCHANGED <<handlers, dir, ref, handling, published, ops>>
    /\ UNCHANGED <<monitorVars, runnerVars, pluginVars>>

NextWatcher ==
    \/ FileSystem
    \/ Poll
    \/ Dequeue
    \/ Handle
    \/ WatcherStop

SpecWatcher == InitWatcher /\ [][NextWatcher]_vars

----------------------------------------------------------------------------
\* PluginRunner (local_plugins/plugin_runner.py)

\* frames of _check_io a thread can be in before the interpreter raises
\* RecursionError
RecursionLimit == 2

InitPlugin ==
    /\ MonitorIdle
    /\ WatcherIdle
    /\ RunnerCreated("valid", FALSE)
    /\ \E args \in {"valid", "missing"} : PluginRunnerCreated(args)

others == <<monitorVars, runnerVars, watcherVars>>

pipes == <<wend, stdio, emitted, relayed, forked>>

\* the ends of the pipes a process held, after it is gone
Without(holder) == [s \in Streams |-> wend[s] \ {holder}]

\* start() of the runner thread; run() logs that it starts the plugin
PluginStart ==
    /\ ppc = "new"
    /\ ppc' = "popen"
    /\ plugin_log' = Append(plugin_log, "starting")
    /\ UNCHANGED <<process_args, plugin_process, stop_event, io, depth,
                   pipes, saw_stopped, others>>

\* subprocess.Popen starts the plugin with both streams piped
Popen ==
    /\ ppc = "popen"
    /\ process_args = "valid"
    /\ plugin_process' = "running"
    /\ wend' = [s \in Streams |-> {"plugin"}]
    /\ ppc' = "start_threads"
    /\ UNCHANGED <<process_args, stop_event, io, depth, stdio, emitted,
                   relayed, forked, plugin_log, saw_stopped, others>>

\* Popen raises; the except clause of run() logs that the plugin died
PopenFails ==
    /\ ppc = "popen"
    /\ process_args = "missing"
    /\ plugin_log' = Append(plugin_log, "died")
    /\ ppc' = "finished"
    /\ UNCHANGED <<process_args, plugin_process, stop_event, io, depth,
                   pipes, saw_stopped, others>>

\* stdout_thread.start(); stderr_thread.start()
StartThreads ==
    /\ ppc = "start_threads"
    /\ io' = [s \in Streams |-> "reading"]
    /\ ppc' = "poll"
    /\ UNCHANGED <<process_args, plugin_process, stop_event, depth, pipes,
                   plugin_log, saw_stopped, others>>

\* the loop on process.poll() ends when the process is gone; run() logs
\* the exit status
ExitObserved ==
    /\ ppc = "poll"
    /\ plugin_process = "exited"
    /\ plugin_log' = Append(plugin_log, "stopped")
    /\ ppc' = "join_stdout"
    /\ UNCHANGED <<process_args, plugin_process, stop_event, io, depth,
                   pipes, saw_stopped, others>>

\* stdout_thread.join()
JoinStdoutThread ==
    /\ ppc = "join_stdout"
    /\ io["stdout"] = "done"
    /\ ppc' = "join_stderr"
    /\ UNCHANGED <<process_args, plugin_process, stop_event, io, depth,
                   pipes, plugin_log, saw_stopped, others>>

\* (variant: run() does not wait for the stderr thread)
JoinStderrThread_noJoin ==
    /\ ppc = "join_stderr"
    /\ ppc' = "test"
    /\ UNCHANGED <<process_args, plugin_process, stop_event, io, depth,
                   pipes, plugin_log, saw_stopped, others>>

\* stderr_thread.join()
JoinStderrThread ==
    /\ ppc = "join_stderr"
    /\ io["stderr"] = "done"
    /\ ppc' = "test"
    /\ UNCHANGED <<process_args, plugin_process, stop_event, io, depth,
                   pipes, plugin_log, saw_stopped, others>>

\* if not self.stopped()
TestStopped ==
    /\ ppc = "test"
    /\ saw_stopped' = IF stop_event THEN "yes" ELSE "no"
    /\ ppc' = IF stop_event THEN "official" ELSE "error"
    /\ UNCHANGED <<process_args, plugin_process, stop_event, io, depth,
                   pipes, plugin_log, others>>

\* self.logger.error("Plugin %s unexpectedly shutdown!")
LogUnexpected ==
    /\ ppc = "error"
    /\ plugin_log' = Append(plugin_log, "unexpected")
    /\ ppc' = "official"
    /\ UNCHANGED <<process_args, plugin_process, stop_event, io, depth,
                   pipes, saw_stopped, others>>

\* self.logger.info("Plugin %s is officially stopped"); run() returns
LogOfficial ==
    /\ ppc = "official"
    /\ plugin_log' = Append(plugin_log, "official")
    /\ ppc' = "finished"
    /\ UNCHANGED <<process_args, plugin_process, stop_event, io, depth,
                   pipes, saw_stopped, others>>

\* _check_io: readline returns a line, which goes to the unformatted logger
check_io_line(s) ==
    /\ io[s] = "reading"
    /\ stdio[s] > 0
    /\ stdio' = [stdio EXCEPT ![s] = @ - 1]
    /\ relayed' = [relayed EXCEPT ![s] = @ + 1]
    /\ UNCHANGED <<ppc, process_args, plugin_process, stop_event, io, depth,
                   wend, emitted, forked, plugin_log, saw_stopped, others>>

\* _check_io: readline returns "" (nothing left to read and no process
\* holds the write end any more), which ends the for loop
check_io_eof(s) ==
    /\ io[s] = "reading"
    /\ stdio[s] = 0
    /\ wend[s] = {}
    /\ io' = [io EXCEPT ![s] = "after_loop"]
    /\ UNCHANGED <<ppc, process_args, plugin_process, stop_event, depth,
                   pipes, plugin_log, saw_stopped, others>>

\* _check_io after the loop: the process is alive, so _check_io calls
\* itself, with a debug record; past the recursion limit the call raises and
\* the thread ends.
\* With the process gone every frame returns.
check_io_after(s) ==
    /\ io[s] = "after_loop"
    /\ IF plugin_process = "running" /\ depth[s] < RecursionLimit
         THEN /\ plugin_log' = Append(plugin_log, "reading_again")
              /\ depth' = [depth EXCEPT ![s] = @ + 1]
              /\ io' = [io EXCEPT ![s] = "reading"]
         ELSE /\ io' = [io EXCEPT ![s] = "done"]
              /\ UNCHANGED <<depth, plugin_log>>
    /\ UNCHANGED <<ppc, process_args, plugin_process, stop_event, pipes,
                   saw_stopped, others>>

_check_io ==
    \E s \in Streams :
        \/ check_io_line(s)
        \/ check_io_eof(s)
        \/ check_io_after(s)

\* the plugin writes a line to one of its streams
PluginWrites ==
    /\ plugin_process = "running"
    /\ emitted < MaxLines
    /\ \E s \in Streams :
         /\ "plugin" \in wend[s]
         /\ stdio' = [stdio EXCEPT ![s] = @ + 1]
    /\ emitted' = emitted + 1
    /\ UNCHANGED <<ppc, process_args, plugin_process, stop_event, io, depth,
                   wend, relayed, forked, plugin_log, saw_stopped, others>>

\* the plugin closes one of its streams
PluginCloses ==
    /\ plugin_process = "running"
    /\ \E s \in Streams :
         /\ "plugin" \in wend[s]
         /\ wend' = [wend EXCEPT ![s] = @ \ {"plugin"}]
    /\ UNCHANGED <<ppc, process_args, plugin_process, stop_event, io, depth,
                   stdio, emitted, relayed, forked, plugin_log, saw_stopped,
                   others>>

\* the plugin starts a process of its own, which inherits the streams the
\* plugin has open
PluginForks ==
    /\ plugin_process = "running"
    /\ ~forked
    /\ forked' = TRUE
    /\ wend' = [s \in Streams |->
                  IF "plugin" \in wend[s] THEN wend[s] \cup {"child"}
                  ELSE wend[s]]
    /\ UNCHANGED <<ppc, process_args, plugin_process, stop_event, io, depth,
                   stdio, emitted, relayed, plugin_log, saw_stopped, others>>

\* that process ends
ChildExits ==
    /\ \E s \in Streams : "child" \in wend[s]
    /\ wend' = Without("child")
    /\ UNCHANGED <<ppc, process_args, plugin_process, stop_event, io, depth,
                   stdio, emitted, relayed, forked, plugin_log, saw_stopped,
                   others>>

\* the plugin process ends by itself
PluginExits ==
    /\ plugin_process = "running"
    /\ plugin_process' = "exited"
    /\ wend' = Without("plugin")
    /\ UNCHANGED <<ppc, process_args, stop_event, io, depth, stdio, emitted,
                   relayed, forked, plugin_log, saw_stopped, others>>

PluginProcess ==
    \/ PluginWrites
    \/ PluginCloses
    \/ PluginForks
    \/ ChildExits
    \/ PluginExits

\* PluginRunner.kill(), called by another thread: a live process is killed,
\* with a warning before and after; otherwise the call does nothing
PluginRunner_kill ==
    /\ plugin_process = "running"
    /\ plugin_log' = plugin_log \o <<"about_to_kill", "killed">>
    /\ plugin_process' = "exited"
    /\ wend' = Without("plugin")
    /\ UNCHANGED <<ppc, process_args, stop_event, io, depth, stdio, emitted,
                   relayed, forked, saw_stopped, others>>

\* StoppableThread.stop(), called by another thread
PluginRunner_stop ==
    /\ ~stop_event
    /\ stop_event' = TRUE
    /\ UNCHANGED <<ppc, process_args, plugin_process, io, depth, pipes,
                   plugin_log, saw_stopped, others>>

NextPlugin ==
    \/ PluginStart
    \/ Popen
    \/ PopenFails
    \/ StartThreads
    \/ ExitObserved
    \/ JoinStdoutThread
    \/ JoinStderrThread
    \/ TestStopped
    \/ LogUnexpected
    \/ LogOfficial
    \/ _check_io
    \/ PluginProcess
    \/ PluginRunner_kill
    \/ PluginRunner_stop

SpecPlugin == InitPlugin /\ [][NextPlugin]_vars

----------------------------------------------------------------------------
\* Properties of the liveness monitor

\* a step in which the loop body of check_status runs on instance Order[cur]
EvalStep == mpc = "instance" /\ ~stopFlag /\ <<mpc', cur'>> # <<mpc, cur>>

\* the object the sweep holds for that instance
Read == snap[Order[cur]]

Recovering == {"UNRESPONSIVE", "STARTING", "INITIALIZING", "UNKNOWN"}

\* C1: whenever a sweep evaluates an instance it read as RUNNING with a
\* heartbeat whose age is at least the timeout (the age equal to the timeout
\* included), and the store takes the update, the persisted status of that
\* instance is UNRESPONSIVE after the step.
C1_RunningTimedOutBecomesUnresponsive ==
    [][(/\ EvalStep
        /\ mpc' # "dead"
        /\ Read.status = "RUNNING"
        /\ Read.heartbeat # NoHeartbeat
        /\ now - Read.heartbeat >= timeout)
       => db'[Order[cur]].status = "UNRESPONSIVE"]_vars

\* the boundary case: age exactly the timeout
C1_Witness ==
    /\ lastEval.status = "RUNNING"
    /\ lastEval.heartbeat # NoHeartbeat
    /\ lastEval.at - lastEval.heartbeat = timeout
    /\ lastEval.wrote = "UNRESPONSIVE"
    /\ db[lastEval.inst].status = "UNRESPONSIVE"

\* C2: whenever a sweep evaluates an instance it read as UNRESPONSIVE,
\* STARTING, INITIALIZING or UNKNOWN with a heartbeat younger than the
\* timeout, and the store takes the update, the persisted status of that
\* instance is RUNNING after the step.
C2_RecentHeartbeatBecomesRunning ==
    [][(/\ EvalStep
        /\ mpc' # "dead"
        /\ Read.status \in Recovering
        /\ Read.heartbeat # NoHeartbeat
        /\ now - Read.heartbeat < timeout)
       => db'[Order[cur]].status = "RUNNING"]_vars

C2_Witness ==
    /\ lastEval.status = "UNRESPONSIVE"
    /\ lastEval.heartbeat # NoHeartbeat
    /\ lastEval.at - lastEval.heartbeat < timeout
    /\ lastEval.wrote = "RUNNING"
    /\ db[lastEval.inst].status = "RUNNING"

\* the cases the two transition rows do not cover
Uncovered(status, hb, t) ==
    \/ hb = NoHeartbeat
    \/ status \in {"STOPPED", "DEAD"}
    \/ status = "RUNNING" /\ t - hb < timeout
    \/ status \in Recovering /\ t - hb >= timeout

\* C3: evaluating an instance in a case the two rows do not cover (STOPPED or
\* DEAD, RUNNING with a young heartbeat, a recovering status with a heartbeat
\* at or past the timeout, no heartbeat at all) writes nothing: the store is
\* left as it was and the sweep goes on.
C3_OtherCasesUnchanged ==
    [][(EvalStep /\ Uncovered(Read.status, Read.heartbeat, now))
       => (db' = db /\ mpc' # "dead")]_vars

\* an instance with no heartbeat was evaluated and left alone ...
C3_Witness ==
    /\ lastEval.inst # "-"
    /\ lastEval.heartbeat = NoHeartbeat
    /\ lastEval.wrote = "-"
    /\ db[lastEval.inst].status = lastEval.status

\* ... and so was a STOPPED one with a young heartbeat
C3_WitnessStopped ==
    /\ lastEval.status = "STOPPED"
    /\ lastEval.heartbeat # NoHeartbeat
    /\ lastEval.at - lastEval.heartbeat < timeout
    /\ lastEval.wrote = "-"

MonitorMoves == {<<"RUNNING", "UNRESPONSIVE">>, <<"UNRESPONSIVE", "RUNNING">>,
                 <<"STARTING", "RUNNING">>, <<"INITIALIZING", "RUNNING">>,
                 <<"UNKNOWN", "RUNNING">>}

\* C4: every change a monitor write makes to a persisted status is one of
\* RUNNING->UNRESPONSIVE, UNRESPONSIVE->RUNNING, STARTING->RUNNING,
\* INITIALIZING->RUNNING, UNKNOWN->RUNNING (so none makes a status STOPPED or
\* DEAD, and none moves a status away from STOPPED or DEAD).
C4_MonitorWritesOnlyItsTransitions ==
    [][EvalStep =>
        \A i \in Instances :
            db'[i].status # db[i].status
                => <<db[i].status, db'[i].status>> \in MonitorMoves]_vars

\* C5: the persisted lastHeartbeat of an instance never moves backward (and
\* is never cleared), whichever of the writers takes the step.
C5_HeartbeatNeverRegresses ==
    [][\A i \in Instances : db'[i].heartbeat >= db[i].heartbeat]_vars

\* C6: an instance that is persisted as RUNNING with a heartbeat younger than
\* the timeout, and that the running sweep holds as persisted, is still
\* RUNNING with the same heartbeat after any iteration of the sweep: repeated
\* sweeps over it change nothing.
C6_SweepIdempotentOnRunning ==
    [][EvalStep =>
        \A i \in Instances :
            (/\ snap[i] = db[i]
             /\ db[i].status = "RUNNING"
             /\ db[i].heartbeat # NoHeartbeat
             /\ now - db[i].heartbeat < timeout)
            => db'[i] = db[i]]_vars

\* no writer but the monitor has acted, so an earlier sweep made the instance
\* RUNNING; this sweep read it RUNNING again and left it so
C6_Witness ==
    /\ envSteps = 0
    /\ lastEval.status = "RUNNING"
    /\ lastEval.heartbeat # NoHeartbeat
    /\ lastEval.at - lastEval.heartbeat < timeout
    /\ lastEval.wrote = "-"
    /\ db[lastEval.inst].status = "RUNNING"

\* C7: a failed probe publish is caught: the step in which queue.put fails
\* leaves the store untouched and the monitor thread at check_status of the
\* same sweep, and the thread never ends before request_status has returned.
C7_PublishFailureIsCaught ==
    /\ [][(mpc = "request_status" /\ probe' = "failed")
          => (mpc' = "check_status" /\ db' = db)]_vars
    /\ [](mpc = "dead" => probe # "none")

\* the publish failed and the same sweep went on to evaluate and write
C7_Witness ==
    /\ probe = "failed"
    /\ mpc = "instance"
    /\ lastEval.wrote \in {"RUNNING", "UNRESPONSIVE"}

\* C8: a store error on the update of one instance does not end the sweep:
\* no sweep stops at an instance while instances after it are unevaluated.
C8_SweepContinuesPastStoreError ==
    (mpc = "dead" /\ cur >= 1) => cur = Len(Order)

\* C9: a store error (on the query or on an update) never terminates the
\* monitor thread.
C9_MonitorSurvivesStoreErrors == mpc # "dead"

\* C26: a step in which the monitor evaluates one instance leaves the
\* persisted status and heartbeat of every other instance as they were.
C26_WriteTouchesOnlyEvaluatedInstance ==
    [][EvalStep
         => \A j \in Instances \ {Order[cur]} : db'[j] = db[j]]_vars

\* C27: a sweep begins (the thread goes to request_status) only from the
\* interval wait, with the stop flag not set and with nothing left of the
\* sweep before: its query result and its probe are gone, it has returned.
C27_OneSweepAtATime ==
    [][(mpc' = "request_status" /\ mpc # "request_status")
         => (/\ mpc = "wait"
             /\ ~stopFlag
             /\ snap = NoObjs
             /\ probe = "none")]_vars

\* a sweep begins after an earlier sweep has written a status (no other
\* writer has acted) and returned
C27_Witness ==
    /\ mpc = "request_status"
    /\ envSteps = 0
    /\ \E i \in Instances : db[i].status = "RUNNING"

\* C28: a sweep makes its queue.put once, in request_status: it is for the
\* _status request, routing key "admin", expiration the sweep period in
\* milliseconds; the outcome then stays until the sweep returns, and
\* check_status runs only with the attempt made.
C28_OneProbePerSweepBeforeEvaluation ==
    /\ [][probe' # probe
            => \/ /\ mpc = "request_status"
                  /\ probe = "none"
                  /\ sent' = StatusRequest(heartbeat_interval * 1000)
               \/ /\ mpc' = "wait"
                  /\ probe' = "none"]_vars
    /\ [](mpc \in {"check_status", "instance"}
            => (/\ probe \in {"published", "failed"}
                /\ sent = StatusRequest(heartbeat_interval * 1000)))

\* the sweep evaluates the second instance, its probe published
C28_Witness ==
    /\ mpc = "instance"
    /\ cur = 2
    /\ probe = "published"
    /\ sent.routing_key = "admin"

\* a step of the monitor thread
ThreadStep == <<mpc', cur', inBody'>> # <<mpc, cur, inBody>>

\* the statements of run() and check_status
MonitorThread ==
    \/ MonitorWait
    \/ RequestStatus
    \/ QuerySystems
    \/ QueryFails
    \/ SkipStopped
    \/ CheckInstance
    \/ UpdateFails
    \/ FinishIteration

\* C31 as stated: once the stop flag is set the monitor writes nothing more
\* to the store (a change of the store that is not a heartbeat receipt or an
\* orchestrator write is the monitor's).
C31_NoWriteAfterStopFlag ==
    [][(stopFlag /\ envSteps' = envSteps) => db' = db]_vars

\* what is left for the thread to do once the stop flag is set
StepsLeft ==
    CASE mpc = "request_status" -> 2 * Len(Order) + 5
      [] mpc = "check_status" -> 2 * Len(Order) + 4
      [] mpc = "instance" ->
            2 * (Len(Order) - cur) + 3 + (IF inBody THEN 1 ELSE 0)
      [] mpc = "wait" -> 1
      [] OTHER -> 0

\* C31, amended: once the stop flag is set it stays set and the monitor
\* starts no evaluation: every instance whose iteration has not passed its
\* test of the flag is skipped, and no sweep is started. The only write that
\* can follow is that of the one iteration that had passed its test when the
\* flag was set. The thread is never blocked and each of its steps brings
\* the end of run() nearer, so run() ends (by returning, or by a store error
\* leaving it).
C31_StopFlagEndsMonitor ==
    /\ [][stopFlag => stopFlag']_vars
    /\ [][(stopFlag /\ ThreadStep /\ ~inBody)
            => (db' = db /\ lastEval' = Null)]_vars
    /\ [][(stopFlag /\ envSteps' = envSteps /\ db' # db)
            => (inBody /\ ~inBody')]_vars
    /\ [][(inBody' /\ ~inBody) => ~stopFlag]_vars
    /\ [][stopFlag => (mpc' = "request_status" => mpc = "request_status")]_vars
    /\ [][(stopFlag /\ ThreadStep) => StepsLeft' < StepsLeft]_vars
    /\ []((stopFlag /\ mpc \notin {"done", "dead"})
            => ENABLED (MonitorThread /\ ThreadStep))

\* run() has returned on the stop flag, which was set in the middle of a
\* sweep: no other writer ever acted, the sweep made the first instance of a
\* system RUNNING and left the second, as young, unevaluated
C31_Witness ==
    /\ mpc = "done"
    /\ stopFlag
    /\ envSteps = 0
    /\ now < timeout
    /\ db["s1.i1"].status = "RUNNING"
    /\ db["s1.i2"] = [status |-> "UNKNOWN", heartbeat |-> 0]

----------------------------------------------------------------------------
\* Properties of the file watcher

\* the observer has polled since the last change of the directory and the
\* dispatcher has handled everything
Quiescent ==
    /\ observer = "running"
    /\ ref = dir
    /\ event_queue = <<>>
    /\ handling = NoEvent

Count(seq, x) == Cardinality({k \in 1..Len(seq) : seq[k] = x})

NewFileSeen ==
    /\ dir["watched"].ino # 0
    /\ \A p \in Paths : ref[p].ino # dir["watched"].ino

CreatedEvent == [type |-> "created", src |-> "watched", dest |-> "-"]

C23_DeleteThenCreatePublished ==
    (/\ Quiescent
     /\ ops = <<"delete", "create">>
     /\ create_event # "None"
     /\ modified_event # "None"
     /\ deleted_event # "None")
        => published = <<deleted_event, create_event>>

\* the event configured for a kind of occurrence
ConfiguredFor(type) ==
    CASE type = "created" -> create_event
      [] type = "modified" -> modified_event
      [] type = "moved" -> moved_event
      [] type = "deleted" -> deleted_event
      [] OTHER -> "None"

\* C24: something is published only by the handler of an event whose source
\* or destination is the watched path, and it is the event configured for
\* that kind, which is set; while only other files of the directory were
\* changed nothing is published.
C24_OnlyWatchedFileOnlyConfiguredEvent ==
    /\ [][published' # published
            => (/\ handling.src = "watched" \/ handling.dest = "watched"
                /\ ConfiguredFor(handling.type) # "None"
                /\ published' = Append(published,
                                       ConfiguredFor(handling.type)))]_vars
    /\ []((\A k \in 1..Len(ops) : ops[k] = "other") => published = <<>>)

\* the other file was created and changed, the observer has caught up, events
\* are configured and nothing was published
C24_Witness ==
    /\ Quiescent
    /\ Len(ops) >= 2
    /\ \A k \in 1..Len(ops) : ops[k] = "other"
    /\ dir["other"].ino # 0
    /\ create_event # "None"
    /\ modified_event # "None"
    /\ published = <<>>

\* C25: a stop() call returns; on a stopped observer it changes nothing; it
\* can be made again at any time after the first; and once the observer is
\* stopped nothing more is published, whatever happens in the directory.
C25_StopIsIdempotent ==
    /\ [][lastStop' # "-"
            => lastStop' \in {"returned", "returned again"}]_vars
    /\ [][(lastStop' # "-" /\ observer = "stopped")
            => UNCHANGED <<handlers, observer, dir, ref, event_queue,
                           handling, published, ops>>]_vars
    /\ [][observer = "stopped"
            => (/\ observer' = "stopped"
                /\ published' = published
                /\ ENABLED WatcherStop)]_vars

\* stop() has returned a second time, after the watched file was changed
\* behind the stopped observer; what was published before is still all
C25_Witness ==
    /\ lastStop = "returned again"
    /\ observer = "stopped"
    /\ published # <<>>
    /\ dir["watched"] # ref["watched"]

----------------------------------------------------------------------------
\* Properties of the process runner

\* C10: terminate() called while the owned process is running delivers the
\* interrupt signal to it and returns normally; called with no process
\* spawned, or after the process exited, it returns without sending a signal.
C10_TerminateSignalsRunningProcess ==
    lastCall.op = "terminate" =>
        /\ lastCall.outcome = "returned"
        /\ lastCall.signal = (IF lastCall.running THEN "SIGINT" ELSE "-")
        /\ (lastCall.running => "SIGINT" \in signals)

\* C11: a call of kill() sends SIGKILL exactly when a process was spawned and
\* has not exited; the call returns without waiting for the process (neither
\* the process nor the runner thread has moved when it returns) and leaves
\* instance_id, restart, stopped and dead as they were.
C11_KillSignalsOnlyLiveProcess ==
    [][lastCall'.op = "kill" =>
         /\ (lastCall'.signal = "SIGKILL") <=> (process = "running")
         /\ signals' = IF process = "running"
                       THEN signals \cup {"SIGKILL"} ELSE signals
         /\ lastCall'.outcome = "returned"
         /\ process' = process
         /\ rpc' = rpc
         /\ attributes' = attributes]_vars

\* kill() has just signalled a running process, which is still running
C11_Witness ==
    /\ lastCall.op = "kill"
    /\ lastCall.running
    /\ lastCall.signal = "SIGKILL"
    /\ process = "running"
    /\ "SIGKILL" \in signals

\* the runner is over: no live process, both readers joined, run() returned
Over ==
    /\ process # "running"
    /\ rpc = "finished"
    /\ \A s \in Streams : reader[s] \in {"none", "done"}

\* C12: with a valid executable, once kill() has been called on a started
\* runner (the runner thread may not have spawned the process yet), the
\* process is eventually not alive, both readers are joined and the runner
\* thread has finished.
C12_KillAfterStartEndsRunner ==
    (lastCall.op = "kill" /\ rpc # "new" /\ executable = "valid") ~> Over

\* the same for a kill() that found the process running
C12_KillOfRunningProcessEndsRunner ==
    (lastCall.op = "kill" /\ lastCall.running) ~> Over

\* C13: a runner whose process has exited while no instance was associated
\* eventually has dead = TRUE (the value state() reports), unless an
\* associate() call arrives in the meantime.
C13_ExitBeforeAssociateMarksDead ==
    (process = "exited" /\ instance_id = "") ~> (instance_id # "" \/ dead)

\* the rest of that case: the runner thread does not hang, it finishes and has
\* logged the warning (or the "died" record when entering the capture failed)
C13_ExitBeforeAssociateWarns ==
    (process = "exited" /\ instance_id = "")
        ~> (instance_id # "" \/ (rpc = "finished" /\ (warned \/ died)))

\* the lines the process wrote to stream s, in the order written
Written(s) == [i \in 1..written[s] |-> i]

\* C14: when a capturing runner has finished, the lines forwarded to the
\* logger of each stream are exactly the lines the process wrote to that
\* stream before it exited, each once and in the order written.
C14_EveryLineForwardedOnce ==
    (rpc = "finished" /\ capture_streams /\ ~died)
        => \A s \in Streams : log[s] = Written(s)

\* the part of it that holds at all times: what was forwarded is a prefix of
\* what was written (no line twice, none out of order)
C14_ForwardedIsPrefixOfWritten ==
    \A s \in Streams :
        /\ Len(log[s]) <= written[s]
        /\ log[s] = SubSeq(Written(s), 1, Len(log[s]))

C16_SpawnFailureReportedToStarter ==
    (lastCall.op = "start" /\ executable = "missing")
        => lastCall.outcome = "LaunchError"

\* C16, amended: start() returns normally; the failure of Popen happens later
\* in the runner thread, where it is caught and logged ("died") and ends
\* run(); the runner then owns no process, and a finished runner never spawns
\* or runs again.
C16_SpawnFailureEndsRunnerQuietly ==
    [][/\ lastCall'.op = "start" => lastCall'.outcome = "returned"
       /\ (rpc = "popen" /\ executable = "missing" /\ rpc' # rpc)
            => (rpc' = "finished" /\ died' /\ process' = "None" /\ spawns' = 0)
       /\ (rpc = "finished" /\ process = "None")
            => (rpc' = "finished" /\ process' = "None" /\ spawns' = 0)]_vars

\* the runner thread has ended on a failed spawn
C16_Witness ==
    /\ executable = "missing"
    /\ rpc = "finished"
    /\ died
    /\ process = "None"
    /\ spawns = 0

\* the positions of the runner thread in run(); "finished" is its return
RunPositions ==
    {"new", "popen", "enter", "wait", "join_stdout", "join_stderr",
     "check_id", "finished"}

\* C17: a failure while spawning or while entering the capture is caught in
\* run(): the step that logs "died" is the return of run(), the thread is
\* never left by an exception, and a returned run() stays returned.
C17_FailuresStayInsideRunnerThread ==
    [][/\ rpc' \in RunPositions
       /\ (died' /\ ~died) => rpc' = "finished"
       /\ rpc = "finished" => rpc' = "finished"]_vars

\* run() has returned after the capture could not be entered; the process it
\* had spawned exists
C17_Witness ==
    /\ capture_streams
    /\ died
    /\ rpc = "finished"
    /\ process # "None"

\* C18: a runner is created with no instance id; the id changes only in a
\* step that is an associate() call, which sets it to the id of the instance
\* given; start, the runner thread, the readers, terminate(), kill() and
\* state() never change or clear it; a state() call reports its value.
C18_InstanceIdChangesOnlyByAssociate ==
    /\ instance_id = ""
    /\ [][/\ instance_id' # instance_id
              => (lastCall'.op = "associate" /\ instance_id' \in InstanceIds)
          /\ lastCall'.op = "state"
              => (/\ snapshot'.values.instance_id = instance_id
                  /\ instance_id' = instance_id)]_vars

\* an associated runner was killed and has finished, and state() reported
\* the id it was given
C18_Witness ==
    /\ instance_id \in InstanceIds
    /\ rpc = "finished"
    /\ process = "exited"
    /\ "SIGKILL" \in signals
    /\ snapshot.values.instance_id = instance_id

\* the attribute values the runner holds
Attrs ==
    [instance_id |-> instance_id, restart |-> restart, stopped |-> stopped,
     dead |-> dead]

\* C19: state() can be called at every point of the runner's life (as a step
\* of its own it is enabled in every state, whatever the runner thread or an
\* associate() call is doing) and returns the values of the attributes at the
\* call; what the caller holds is not altered by anything that happens
\* afterwards, until the caller calls state() again.
C19_StateIsSnapshot ==
    [][/\ ENABLED State
       /\ lastCall'.op = "state"
            => (snapshot'.kind # "none" /\ snapshot'.values = Attrs)
       /\ lastCall'.op # "state"
            => SnapshotView(snapshot', Attrs') = SnapshotView(snapshot, Attrs)]_vars

\* a state() result taken before associate() still shows no instance id after
\* the runner was associated and its process has exited
C19_Witness ==
    /\ snapshot.kind # "none"
    /\ snapshot.values.instance_id = ""
    /\ instance_id # ""
    /\ process = "exited"

\* C20: a runner owns a process only by having spawned it, and spawns at most
\* once in its life: never a second process, alive or not.
C20_AtMostOneProcess ==
    /\ spawns <= 1
    /\ (process = "None") <=> (spawns = 0)

\* a runner whose only process has exited and whose thread has finished
C20_Witness ==
    /\ spawns = 1
    /\ rpc = "finished"
    /\ process = "exited"
    /\ ~died

\* C21: whenever dead is TRUE the owned process has exited and no restart is
\* pending.
C21_DeadImpliesExitedNoRestart ==
    dead => (process = "exited" /\ ~restart)

\* no step of the runner or of its callers assigns dead, restart or stopped:
\* they keep the values __init__ gave them
C21_FlagsNeverSet ==
    ~dead /\ ~restart /\ ~stopped

\* C29: the runner thread is at a join of a reader thread only when the
\* process has exited, that is after process.wait() has returned.
C29_JoinsOnlyAfterProcessExit ==
    rpc \in {"join_stdout", "join_stderr"} => process = "exited"

\* the runner thread waits in the join of the stdout reader, which is still
\* reading what the exited process left in the pipe
C29_Witness ==
    /\ rpc = "join_stdout"
    /\ process = "exited"
    /\ reader["stdout"] = "read"
    /\ pipe["stdout"] # <<>>

\* C30: in the step in which run() tests the instance id after the process
\* has exited, the warning is logged exactly when no instance is associated
\* at that moment; either way run() returns normally, with no "died" record.
C30_WarningIffNotAssociated ==
    [][(rpc = "check_id" /\ rpc' # rpc)
         => (/\ warned' <=> (instance_id = "")
             /\ rpc' = "finished"
             /\ ~died')]_vars

\* run() has returned without the warning, the runner having been associated
\* when the exit was handled
C30_Witness ==
    /\ rpc = "finished"
    /\ process = "exited"
    /\ ~warned
    /\ ~died
    /\ instance_id # ""

----------------------------------------------------------------------------
\* Properties of the plugin runner

Logged(record) == \E k \in 1..Len(plugin_log) : plugin_log[k] = record

Times(record) == Cardinality({k \in 1..Len(plugin_log) : plugin_log[k] = record})

\* C32: in PluginRunner.run(), the "officially stopped" record is logged
\* only after the process was seen to have exited and both IO threads have
\* ended (run() joined them), and at most once; the "unexpectedly shutdown"
\* error is logged, at most once and before that record, exactly when the
\* stop flag was not set at the moment run() tested it, which is after the
\* joins: a stop() made later does not take the error back and one made
\* before the test suppresses it.
C32_JoinsThenOfficialAndErrorIffNotStopped ==
    /\ [](Logged("official") =>
            /\ plugin_process = "exited"
            /\ Logged("stopped")
            /\ \A s \in Streams : io[s] = "done"
            /\ Times("official") = 1
            /\ Logged("unexpected") = (saw_stopped = "no"))
    /\ [](Logged("unexpected") => (saw_stopped = "no" /\ Times("unexpected") = 1))
    /\ [](ppc \in {"test", "error", "official"} =>
            \A s \in Streams : io[s] = "done")
    /\ [][saw_stopped' # saw_stopped =>
            /\ ppc = "test"
            /\ saw_stopped = "-"
            /\ \A s \in Streams : io[s] = "done"
            /\ saw_stopped' = (IF stop_event THEN "yes" ELSE "no")]_vars
    /\ [][(ppc = "test" /\ ppc' # ppc) => saw_stopped' # saw_stopped]_vars

\* run() has returned after the plugin, which had started a process of its
\* own and written to stderr, exited: the error was logged because the stop
\* flag was not set when run() tested it, though it is set by now
C32_Witness ==
    /\ ppc = "finished"
    /\ Logged("unexpected")
    /\ Logged("official")
    /\ stop_event
    /\ forked
    /\ relayed["stderr"] > 0

====
